---------------------------- MODULE Spec2Model ----------------------------
(***************************************************************************)
(* Model of the model-serving gateway of this repository.                  *)
(*                                                                         *)
(* scripts/embed-server.py is a Flask application started with             *)
(* app.run(threaded=True): every request runs in its own thread, and the   *)
(* three module-level dictionaries fastembed_models, st_models and         *)
(* reranker_models are shared by all of them without any lock.  A request  *)
(* thread is modelled by a program counter that stops at every access to   *)
(* the shared dictionaries made by get_fastembed_model, get_st_model and   *)
(* get_reranker_model:                                                     *)
(*                                                                         *)
(*    "check"   the test `key not in cache`          (lines 60, 83, 94)    *)
(*    "load"    the constructor call and the store   (lines 66, 71, 88, 97)*)
(*    "return"  the read `return cache[key]`         (lines 78, 89, 101)   *)
(*                                                                         *)
(* and at every read list(cache.keys()) made by /health and /models.       *)
(*                                                                         *)
(* Everything a handler does between two such accesses is local to its     *)
(* thread and is part of the step that ends at the next access.            *)
(***************************************************************************)
EXTENDS Integers, Sequences, FiniteSets, TLC

VARIABLES
    fastembed_models,   \* dict: model name -> TextEmbedding instance
    st_models,          \* dict: model name -> SentenceTransformer instance
    reranker_models,    \* dict: "method:model" -> cross-encoder instance
    th,                 \* request threads: th[t] is the state of thread t
    loadedOK,           \* history: <<cache, key>> of every load that completed
    failedKeys,         \* history: <<cache, key>> of every load that raised
    fastembed_model,    \* embed-service.py: the global model (NoInst is None)
    reranker_model,     \* rerank-service.py: the global model (NoInst is None)
    worker,             \* request threads of the services: worker[s][t]
    boot                \* how each service was started and how far it has got

\* The state of the two single-model services (docker/embed-service and
\* docker/rerank-service), which are processes of their own.
service == <<fastembed_model, reranker_model, worker, boot>>

vars == <<fastembed_models, st_models, reranker_models, th, loadedOK, failedKeys,
          service>>

-----------------------------------------------------------------------------
(* Bounds of the model *)

MaxDocs == 3         \* longest documents list of a /rerank request
MaxScore == 2        \* scores a reranker returns range over 0..MaxScore
MaxTop == 4          \* top_n ranges over -MaxTop..MaxTop (and absent)
MaxWarmModels == 2   \* longest models list of a /warmup request
MaxWarmRerankers == 1   \* longest rerankers list of a /warmup request
MaxTexts == 2        \* longest texts list of an /embed/batch request
MaxDim == 2          \* vectors a model yields have 1..MaxDim components
MaxProbe == 2        \* most results the inference call of a probe returns

\* The request threads of the threaded server that are modelled: two, the
\* least number that can race on a cache entry.
Threads == {1, 2}

-----------------------------------------------------------------------------
(* Python values *)

\* data.get(k) is a string or None (the key is absent from the JSON object
\* or holds null).  None is no string: the `none` field of a parsed object
\* is the set of the keys whose value is None, and the field of such a key
\* holds "" as a filler that no handler reads.
\* The parsed object r without key k:
Lacking(r, k) == [r EXCEPT !.none = @ \cup {k}, ![k] = ""]

\* Python truthiness of the string-or-None field k of r (`not method`):
\* None and "" are falsy, every other string is truthy.
Truthy(r, k) == k \notin r.none /\ r[k] # ""

\* An optional integer (top_n) is <<>> when absent (None) and <<k>> when given.
\* `if top_n:` is false for None and for 0.
TruthyInt(o) == o # <<>> /\ o[1] # 0

\* dict[k] = v
Put(d, k, v) == [x \in (DOMAIN d) \cup {k} |-> IF x = k THEN v ELSE d[x]]

Min(a, b) == IF a <= b THEN a ELSE b
Max(a, b) == IF a >= b THEN a ELSE b

-----------------------------------------------------------------------------
(* The static tables *)

FASTEMBED_SUPPORTED ==
    { "intfloat/multilingual-e5-large",
      "BAAI/bge-base-en-v1.5",
      "BAAI/bge-small-en-v1.5",
      "jinaai/jina-embeddings-v2-base-code",
      "sentence-transformers/paraphrase-multilingual-MiniLM-L12-v2" }

RERANKER_SUPPORTED ==
    ("fastembed" :>
        { "BAAI/bge-reranker-base",
          "BAAI/bge-reranker-large",
          "jinaai/jina-reranker-v2-base-multilingual",
          "Xenova/ms-marco-MiniLM-L-6-v2",
          "Xenova/ms-marco-MiniLM-L-12-v2" })
    @@
    ("sentence-transformers" :>
        { "BAAI/bge-reranker-v2-m3",
          "cross-encoder/ms-marco-MiniLM-L-6-v2" })


-----------------------------------------------------------------------------
(* Model instances and the three get-or-load functions *)

\* The object a constructor call returns.  Two constructor calls never return
\* the same object; a thread constructs a given model at most once per cache
\* key (after its store the key is present whenever it checks again), so the
\* constructing thread `by` together with the arguments names the object.
\* TextEmbedding and TextCrossEncoder take no trust_remote_code argument:
\* their instances carry FALSE.
Instance(cls, name, trust, t) ==
    [cls |-> cls, name |-> name, trust |-> trust, by |-> t]

NoInst == [cls |-> "none", name |-> "", trust |-> FALSE, by |-> 0]

\* A call of one of the three get-or-load functions with its arguments.
Call(fn, method, model, trust) ==
    [fn |-> fn, method |-> method, model |-> model, trust |-> trust]

NoCall == Call("none", "", "", FALSE)

\* Mutant of CacheKey: the reranker cache is keyed by the model name alone,
\* as the two embedding caches are.
CacheKey_NameOnly(call) == call.model

\* f"{method}:{model_name}" (line 58); the two embedding caches are keyed by
\* the model name alone (lines 83, 94).
CacheKey(call) ==
    IF call.fn = "get_reranker_model"
    THEN call.method \o ":" \o call.model
    ELSE call.model

\* The dictionary a get-or-load function reads and writes.
CacheOf(fn) ==
    CASE fn = "get_fastembed_model" -> fastembed_models
      [] fn = "get_st_model"        -> st_models
      [] OTHER                      -> reranker_models

\* <<cache, key>>: the identity of a cache entry across the three caches.
EntryOf(call) == <<call.fn, CacheKey(call)>>

\* Mutant of KeyIn: the cache is not consulted, every call is a miss.
KeyIn_NeverHits(call) == FALSE

\* Mutant of KeyIn: a key whose load has raised counts as present.
KeyIn_RemembersFailure(call) ==
    \/ CacheKey(call) \in DOMAIN CacheOf(call.fn)
    \/ EntryOf(call) \in failedKeys

\* `key not in cache` is false: the entry is present.
KeyIn(call) == CacheKey(call) \in DOMAIN CacheOf(call.fn)

\* On a cache miss, the ValueError raised before any constructor is called:
\* get_fastembed_model checks FASTEMBED_SUPPORTED (line 84), get_st_model
\* checks nothing, get_reranker_model checks RERANKER_SUPPORTED['fastembed']
\* for fastembed (line 62), nothing for sentence-transformers, and rejects
\* every other method (line 76).
RaisesBeforeLoad(call) ==
    CASE call.fn = "get_fastembed_model" -> call.model \notin FASTEMBED_SUPPORTED
      [] call.fn = "get_st_model"        -> FALSE
      [] OTHER ->
            IF call.method = "fastembed"
            THEN call.model \notin RERANKER_SUPPORTED["fastembed"]
            ELSE IF call.method = "sentence-transformers"
            THEN FALSE
            ELSE TRUE

\* The constructor a miss calls, with the arguments it is given.
Construct(call, t) ==
    CASE call.fn = "get_fastembed_model" ->
            Instance("TextEmbedding", call.model, FALSE, t)
      [] call.fn = "get_st_model" ->
            Instance("SentenceTransformer", call.model, call.trust, t)
      [] OTHER ->
            IF call.method = "fastembed"
            THEN Instance("TextCrossEncoder", call.model, FALSE, t)
            ELSE Instance("CrossEncoder", call.model, call.trust, t)

\* Mutants of StoreLoaded: the entry is written before the constructor has
\* returned, so a failure leaves a broken entry; the handler of a failure
\* deletes the key.
StoreLoaded_CachesFailure(cache, call, t, ok) ==
    Put(cache, CacheKey(call), IF ok THEN Construct(call, t) ELSE NoInst)

StoreLoaded_EvictsOnFailure(cache, call, t, ok) ==
    IF ok THEN Put(cache, CacheKey(call), Construct(call, t))
    ELSE [x \in (DOMAIN cache) \ {CacheKey(call)} |-> cache[x]]

\* cache[key] = Constructor(...): the store happens only when the constructor
\* returns; when it raises, the assignment is never executed and the
\* dictionary is left as it was.
StoreLoaded(cache, call, t, ok) ==
    IF ok THEN Put(cache, CacheKey(call), Construct(call, t)) ELSE cache

-----------------------------------------------------------------------------
(* The rerank computation (pure) *)

\* [(i, float(score)) for i, score in enumerate(scores)]: 0-based positions.
IndexedScores(scores) == [i \in 1..Len(scores) |-> <<i - 1, scores[i]>>]

\* Mutant of InsertDesc: a pair goes in front of the pairs of equal score,
\* as an ascending sort that is reversed afterwards leaves them.
RECURSIVE InsertDesc_TiesReversed(_, _)
InsertDesc_TiesReversed(sorted, p) ==
    IF sorted = <<>> THEN <<p>>
    ELSE IF Head(sorted)[2] > p[2]
    THEN <<Head(sorted)>> \o InsertDesc_TiesReversed(Tail(sorted), p)
    ELSE <<p>> \o sorted

\* One pair put into a list already sorted by score descending, behind every
\* pair whose score is not smaller: pairs of equal score keep their order.
RECURSIVE InsertDesc(_, _)
InsertDesc(sorted, p) ==
    IF sorted = <<>> THEN <<p>>
    ELSE IF Head(sorted)[2] >= p[2]
    THEN <<Head(sorted)>> \o InsertDesc(Tail(sorted), p)
    ELSE <<p>> \o sorted

\* Mutant of SortDesc: the list is left in input order.
SortDesc_Unsorted(pairs) == pairs

\* indexed_scores.sort(key=lambda x: x[1], reverse=True): Python's sort is
\* stable, and reverse=True keeps the original order of equal keys.
RECURSIVE SortDesc(_)
SortDesc(pairs) ==
    IF pairs = <<>> THEN <<>>
    ELSE InsertDesc(SortDesc(SubSeq(pairs, 1, Len(pairs) - 1)), pairs[Len(pairs)])

\* lst[:k]: the first k items for k >= 0 (all of them when k exceeds the
\* length), and all but the last -k items for k < 0.
SliceTo(lst, k) ==
    IF k >= 0
    THEN SubSeq(lst, 1, Min(k, Len(lst)))
    ELSE SubSeq(lst, 1, Max(Len(lst) + k, 0))

\* if top_n: indexed_scores = indexed_scores[:top_n]
ApplyTopN(indexed_scores, top_n) ==
    IF TruthyInt(top_n) THEN SliceTo(indexed_scores, top_n[1]) ELSE indexed_scores

\* The list comprehension that builds the response entries; documents[idx]
\* is 0-based.
BuildResults(indexed_scores, documents) ==
    [j \in 1..Len(indexed_scores) |->
        [index    |-> indexed_scores[j][1],
         score    |-> indexed_scores[j][2],
         document |-> documents[indexed_scores[j][1] + 1]]]

\* scores -> scored_results, as both providers' branches compute it.
RerankResults(scores, documents, top_n) ==
    BuildResults(ApplyTopN(SortDesc(IndexedScores(scores)), top_n), documents)

-----------------------------------------------------------------------------
(* Requests, responses and the state of a request thread *)

\* The parsed JSON body of a POST.  `text` holds /embed's text and /rerank's
\* query; `documents` holds /rerank's documents and /embed/batch's texts;
\* `trust` is data.get('trust_remote_code', False); `models` and
\* `rerankers` are /warmup's two lists of [method, model, trust] entries.
\* `json` is the type of the JSON value request.json returns: an "object"
\* (a dict), or an "array" (a list, which has no .get).
Req(kind, method, model, text, documents, top_n, trust, models, rerankers) ==
    [kind |-> kind, json |-> "object", none |-> {}, method |-> method,
     model |-> model, text |-> text, documents |-> documents, top_n |-> top_n, trust |-> trust,
     models |-> models, rerankers |-> rerankers]

\* A POST to endpoint `kind` whose JSON body is a list.
NonObjectReq(kind) ==
    [Req(kind, "", "", "", <<>>, <<>>, FALSE, <<>>, <<>>) EXCEPT
        !.json = "array"]

NoReq == Req("none", "", "", "", <<>>, <<>>, FALSE, <<>>, <<>>)

EmbedReq(method, model, text, trust) ==
    Req("embed", method, model, text, <<>>, <<>>, trust, <<>>, <<>>)

BatchReq(method, model, texts, trust) ==
    Req("embed_batch", method, model, "", texts, <<>>, trust, <<>>, <<>>)

RerankReq(method, model, query, documents, top_n, trust) ==
    Req("rerank", method, model, query, documents, top_n, trust, <<>>, <<>>)

WarmupReq(models, rerankers) ==
    Req("warmup", "", "", "", <<>>, <<>>, FALSE, models, rerankers)

WarmEntry(method, model, trust) ==
    [json |-> "object", none |-> {}, method |-> method, model |-> model,
     trust |-> trust]

\* An element of a /warmup list that is a JSON string, not an object.
NonObjectEntry == [WarmEntry("", "", FALSE) EXCEPT !.json = "string"]

NoLoaded == [fastembed |-> {}, st |-> {}, rerankers |-> {}]

\* What a handler returns: the HTTP status and the parts of the body the
\* claims speak of.  `call` and `inst` are the get-or-load call the handler
\* made and the instance it was given (not part of the wire response).
\* `embeddings` and `dimension` are set by /embed/batch only.
Resp(status, call, inst, results, warm, loaded) ==
    [status |-> status, call |-> call, inst |-> inst, results |-> results,
     count |-> Len(results), warm |-> warm, loaded |-> loaded,
     embeddings |-> <<>>, dimension |-> 0]

NoResp == Resp(0, NoCall, NoInst, <<>>, <<>>, NoLoaded)

\* The body /embed/batch returns (lines 220-225): a vector is modelled by its
\* number of components.
\*   'count': len(embeddings),
\*   'dimension': len(embeddings[0]) if embeddings else 0
BatchResp(call, inst, embeddings) ==
    [Resp(200, call, inst, <<>>, <<>>, NoLoaded) EXCEPT
        !.embeddings = embeddings,
        !.count = Len(embeddings),
        !.dimension = IF embeddings # <<>> THEN embeddings[1] ELSE 0]

\* What the model library did with the instance for one inference call: it
\* raised (ok = FALSE) or returned; `scores` is what a reranker returned,
\* `vecs` the vectors (each by its number of components) an embedding model
\* yielded for a list of texts.
Outcome(ok, scores) == [ok |-> ok, scores |-> scores, vecs |-> <<>>]

NoOut == Outcome(TRUE, <<>>)

Yielded(vecs) == [NoOut EXCEPT !.vecs = vecs]

\* A thread that is not inside a handler.
\* `key` is /warmup's result key of the entry being loaded, `todo` the entries
\* its loops have not visited yet, `warm` its results dictionary.  `tried`
\* (the get-or-load calls the handler has made) and `retry` (the current
\* call missed on an entry whose load had raised before) are history, and so
\* are `hit` (the current call found its key in the cache) and `out` (what
\* the model library did in the handler's inference call).  `seen`, kept
\* for /health and /models, is the set of the contents (key sets) the three
\* caches have had together at some moment since the request arrived.
IdleThread ==
    [pc |-> "idle", req |-> NoReq, call |-> NoCall, key |-> "",
     todo |-> <<>>, warm |-> <<>>, tried |-> <<>>, retry |-> FALSE,
     hit |-> FALSE, out |-> NoOut, seen |-> {}, resp |-> NoResp]

\* A thread that has just received request r.
Started(r) == [IdleThread EXCEPT !.req = r]

\* The handler returns: the thread holds the response it is about to send.
Respond(thr, r) ==
    [thr EXCEPT !.pc = "done", !.call = NoCall, !.key = "", !.resp = r]

\* The handler calls a get-or-load function: its first shared access is the
\* membership test.
Calling(thr, call) ==
    [thr EXCEPT !.pc = "check", !.call = call, !.tried = Append(@, call)]

Error(thr, status) == Respond(thr, Resp(status, thr.call, NoInst, <<>>, <<>>, NoLoaded))

\* An exception raised outside every try block of the handler (data.get or
\* m.get on a value that is not a dict: AttributeError) leaves the handler
\* function; no response is built by the handler.
Escaped(thr) == [thr EXCEPT !.pc = "escaped", !.call = NoCall, !.key = ""]

-----------------------------------------------------------------------------
(* scripts/embed-server.py: the handlers *)

\* /embed up to its first shared access (lines 131-152, 160-161).
EmbedStart(r) ==
    IF r.json # "object"
    THEN Escaped(Started(r))
    ELSE IF ~(Truthy(r, "method") /\ Truthy(r, "model") /\ Truthy(r, "text"))
    THEN Error(Started(r), 400)
    ELSE IF r.method = "fastembed"
    THEN Calling(Started(r), Call("get_fastembed_model", r.method, r.model, FALSE))
    ELSE IF r.method = "sentence-transformers"
    THEN Calling(Started(r), Call("get_st_model", r.method, r.model, r.trust))
    ELSE Error(Started(r), 400)

\* Mutant of EmbedBatchStart: the model is fetched before the fields are
\* validated.
EmbedBatchStart_ValidatesLate(r) ==
    IF r.method = "fastembed"
    THEN Calling(Started(r), Call("get_fastembed_model", r.method, r.model, FALSE))
    ELSE IF r.method = "sentence-transformers"
    THEN Calling(Started(r), Call("get_st_model", r.method, r.model, r.trust))
    ELSE Error(Started(r), 400)

\* /embed/batch up to its first shared access (lines 190-209, 211-212).
EmbedBatchStart(r) ==
    IF r.json # "object"
    THEN Escaped(Started(r))
    ELSE IF ~(Truthy(r, "method") /\ Truthy(r, "model")) \/ r.documents = <<>>
    THEN Error(Started(r), 400)
    ELSE IF r.method = "fastembed"
    THEN Calling(Started(r), Call("get_fastembed_model", r.method, r.model, FALSE))
    ELSE IF r.method = "sentence-transformers"
    THEN Calling(Started(r), Call("get_st_model", r.method, r.model, r.trust))
    ELSE Error(Started(r), 400)

\* /rerank up to its first shared access (lines 332-346): get_reranker_model
\* is called for every method.
RerankStart(r) ==
    IF r.json # "object"
    THEN Escaped(Started(r))
    ELSE IF ~(Truthy(r, "method") /\ Truthy(r, "model") /\ Truthy(r, "text"))
            \/ r.documents = <<>>
    THEN Error(Started(r), 400)
    ELSE Calling(Started(r), Call("get_reranker_model", r.method, r.model, r.trust))

\* The entries of both /warmup loops in the order the handler visits them.
Tagged(list, entries) ==
    [i \in 1..Len(entries) |->
        [list |-> list, json |-> entries[i].json, none |-> entries[i].none,
         method |-> entries[i].method,
         model |-> entries[i].model, trust |-> entries[i].trust]]

\* /warmup from the top of a loop iteration to the next shared access or to
\* the return (lines 255-273, 284-296, 305).
RECURSIVE WarmNext(_)
WarmNext(thr) ==
    IF thr.todo = <<>>
    THEN Respond(thr, Resp(200, NoCall, NoInst, <<>>, thr.warm, NoLoaded))
    ELSE LET m    == Head(thr.todo)
             rest == [thr EXCEPT !.todo = Tail(thr.todo)]
         IN  IF m.json # "object"
             THEN Escaped(rest)
             ELSE IF ~Truthy(m, "model") \/ ~Truthy(m, "method")
             THEN WarmNext(rest)
             ELSE IF m.list = "models"
             THEN LET key == m.method \o ":" \o m.model
                  IN  IF m.method = "fastembed"
                      THEN Calling([rest EXCEPT !.key = key],
                                   Call("get_fastembed_model", m.method, m.model, FALSE))
                      ELSE IF m.method = "sentence-transformers"
                      THEN Calling([rest EXCEPT !.key = key],
                                   Call("get_st_model", m.method, m.model, m.trust))
                      ELSE WarmNext([rest EXCEPT !.warm = Put(@, key, FALSE)])
             ELSE LET key == "reranker:" \o m.method \o ":" \o m.model
                  IN  Calling([rest EXCEPT !.key = key],
                              Call("get_reranker_model", m.method, m.model, m.trust))

\* /warmup up to its first shared access (lines 249-252).
WarmupStart(r) ==
    IF r.json # "object"
    THEN Escaped(Started(r))
    ELSE WarmNext([Started(r) EXCEPT
                !.todo = Tagged("models", r.models) \o Tagged("rerankers", r.rerankers)])

\* Mutant of WarmupExcept: the failure ends the handler.
WarmupExcept_Aborts(thr) ==
    Respond(thr, Resp(500, NoCall, NoInst, <<>>, Put(thr.warm, thr.key, FALSE), NoLoaded))

\* The except clause inside each /warmup loop (lines 279-281, 301-303): the
\* failure is recorded under the entry's key and the loop goes on.
WarmupExcept(thr) ==
    WarmNext([thr EXCEPT !.warm = Put(@, thr.key, FALSE)])

\* An exception raised by get-or-load reaches the handler's except clause
\* (lines 171-173, 403-405; for /warmup the clause inside the loop).
OnRaise(thr) ==
    IF thr.req.kind = "warmup" THEN WarmupExcept(thr) ELSE Error(thr, 500)

\* What the model library does with the instance: it raises (ok = FALSE) or
\* returns; for a reranker it returns one score per document.
InferenceOutcomes(thr, scoreVals) ==
    CASE thr.req.kind = "rerank" ->
            {Outcome(TRUE, s) : s \in [1..Len(thr.req.documents) -> scoreVals]}
            \cup {Outcome(FALSE, <<>>)}
      [] thr.req.kind = "embed" ->
            {Outcome(b, <<>>) : b \in BOOLEAN}
      [] thr.req.kind = "embed_batch" ->
            {Yielded(v) : v \in UNION {[1..n -> 1..MaxDim] :
                                            n \in 0..(Len(thr.req.documents) + 1)}}
            \cup {Outcome(FALSE, <<>>)}
      [] OTHER -> {NoOut}

\* The handler from the return of get-or-load (which gave it `inst`) to its
\* next shared access or to its return: /embed lines 148-173, /embed/batch
\* lines 204-229, /rerank lines 348-405, /warmup lines 275-277 and 297-299.
AfterGet(thr, inst, out) ==
    CASE thr.req.kind = "warmup" ->
            WarmNext([thr EXCEPT !.warm = Put(@, thr.key, TRUE)])
      [] thr.req.kind = "rerank" ->
            IF thr.req.method \in {"fastembed", "sentence-transformers"}
            THEN IF out.ok
                 THEN Respond(thr, Resp(200, thr.call, inst,
                          RerankResults(out.scores, thr.req.documents, thr.req.top_n),
                          <<>>, NoLoaded))
                 ELSE Error(thr, 500)
            ELSE Error(thr, 400)
      [] thr.req.kind = "embed_batch" ->
            IF out.ok
            THEN Respond(thr, BatchResp(thr.call, inst, out.vecs))
            ELSE Error(thr, 500)
      [] OTHER ->
            IF out.ok
            THEN Respond(thr, Resp(200, thr.call, inst, <<>>, <<>>, NoLoaded))
            ELSE Error(thr, 500)

\* list(d.keys()): the keys a cache holds at the moment it is read.
ListKeys(cache) == DOMAIN cache

\* The key sets of three caches, as /health and /models report them.
Keys(f, st, r) == [fastembed |-> DOMAIN f, st |-> DOMAIN st, rerankers |-> DOMAIN r]

\* A thread that is answering /health or /models while a cache is written
\* to: the new contents are a moment of its request.
Observe(thr, keys) ==
    IF thr.pc \in {"read_st", "read_rerankers"}
    THEN [thr EXCEPT !.seen = @ \cup {keys}]
    ELSE thr

\* /health and /models evaluate list(fastembed_models.keys()),
\* list(st_models.keys()) and list(reranker_models.keys()) one after another
\* (lines 109-111, 413-415); each is one access to a shared dictionary.
\* The first read, made by the step that receives the request:
ProbeStart(kind) ==
    [IdleThread EXCEPT
        !.pc = "read_st",
        !.req.kind = kind,
        !.seen = {Keys(fastembed_models, st_models, reranker_models)},
        !.resp.loaded.fastembed = ListKeys(fastembed_models)]

\* The second and the third read; after the third the handler returns.
ProbeRead(thr) ==
    IF thr.pc = "read_st"
    THEN [thr EXCEPT !.pc = "read_rerankers",
                     !.resp.loaded.st = ListKeys(st_models)]
    ELSE Respond(thr, Resp(200, NoCall, NoInst, <<>>, <<>>,
                           [thr.resp.loaded EXCEPT
                               !.rerankers = ListKeys(reranker_models)]))

-----------------------------------------------------------------------------
(* Actions: one per handler entry and one per shared access *)

\* POST /embed received by an idle thread.
embed(t, reqs) ==
    /\ th[t].pc = "idle"
    /\ \E r \in reqs : th' = [th EXCEPT ![t] = EmbedStart(r)]
    /\ UNCHANGED <<fastembed_models, st_models, reranker_models, loadedOK, failedKeys, service>>

\* POST /embed/batch received by an idle thread.
embed_batch(t, reqs) ==
    /\ th[t].pc = "idle"
    /\ \E r \in reqs : th' = [th EXCEPT ![t] = EmbedBatchStart(r)]
    /\ UNCHANGED <<fastembed_models, st_models, reranker_models, loadedOK, failedKeys, service>>

\* POST /rerank received by an idle thread.
rerank(t, reqs) ==
    /\ th[t].pc = "idle"
    /\ \E r \in reqs : th' = [th EXCEPT ![t] = RerankStart(r)]
    /\ UNCHANGED <<fastembed_models, st_models, reranker_models, loadedOK, failedKeys, service>>

\* POST /warmup received by an idle thread.
warmup(t, reqs) ==
    /\ th[t].pc = "idle"
    /\ \E r \in reqs : th' = [th EXCEPT ![t] = WarmupStart(r)]
    /\ UNCHANGED <<fastembed_models, st_models, reranker_models, loadedOK, failedKeys, service>>

\* GET /health (lines 104-114) received by an idle thread.
health(t) ==
    /\ th[t].pc = "idle"
    /\ th' = [th EXCEPT ![t] = ProbeStart("health")]
    /\ UNCHANGED <<fastembed_models, st_models, reranker_models, loadedOK, failedKeys, service>>

\* GET /models (lines 408-419) received by an idle thread.
list_models(t) ==
    /\ th[t].pc = "idle"
    /\ th' = [th EXCEPT ![t] = ProbeStart("models")]
    /\ UNCHANGED <<fastembed_models, st_models, reranker_models, loadedOK, failedKeys, service>>

\* /health or /models reads the keys of its next cache.
ReadKeys(t) ==
    /\ th[t].pc \in {"read_st", "read_rerankers"}
    /\ th' = [th EXCEPT ![t] = ProbeRead(@)]
    /\ UNCHANGED <<fastembed_models, st_models, reranker_models, loadedOK, failedKeys, service>>

\* The response is sent (the handler's, or the one the framework makes of an
\* exception that left the handler) and the thread is free for the next
\* request.
finish(t) ==
    /\ th[t].pc \in {"done", "escaped"}
    /\ th' = [th EXCEPT ![t] = IdleThread]
    /\ UNCHANGED <<fastembed_models, st_models, reranker_models, loadedOK, failedKeys, service>>

\* Mutant of GetCheck: get-or-load is entered under one lock for all keys,
\* which a loading thread holds until its constructor has returned.
GetCheck_UnderGlobalLock(t) ==
    /\ th[t].pc = "check"
    /\ \A u \in Threads : th[u].pc # "load"
    /\ LET thr == th[t]
       IN  th' = [th EXCEPT ![t] =
                IF KeyIn(thr.call)
                THEN [thr EXCEPT !.pc = "return", !.retry = FALSE, !.hit = TRUE]
                ELSE IF RaisesBeforeLoad(thr.call)
                THEN OnRaise([thr EXCEPT !.retry = FALSE, !.hit = FALSE])
                ELSE [thr EXCEPT !.pc = "load", !.hit = FALSE,
                                 !.retry = EntryOf(thr.call) \in failedKeys]]
    /\ UNCHANGED <<fastembed_models, st_models, reranker_models, loadedOK, failedKeys, service>>

\* `if key not in cache:` (lines 60, 83, 94) and, on a miss, the checks made
\* before the constructor is called.
GetCheck(t) ==
    /\ th[t].pc = "check"
    /\ LET thr == th[t]
       IN  th' = [th EXCEPT ![t] =
                IF KeyIn(thr.call)
                THEN [thr EXCEPT !.pc = "return", !.retry = FALSE, !.hit = TRUE]
                ELSE IF RaisesBeforeLoad(thr.call)
                THEN OnRaise([thr EXCEPT !.retry = FALSE, !.hit = FALSE])
                ELSE [thr EXCEPT !.pc = "load", !.hit = FALSE,
                                 !.retry = EntryOf(thr.call) \in failedKeys]]
    /\ UNCHANGED <<fastembed_models, st_models, reranker_models, loadedOK, failedKeys, service>>

\* cache[key] = Constructor(...) (lines 66, 71-74, 88, 97-100): the
\* constructor, which ran since the check without holding any lock, returns
\* and its result is stored, or it raises.
GetLoad(t) ==
    /\ th[t].pc = "load"
    /\ \E ok \in BOOLEAN :
        LET call == th[t].call
        IN  /\ fastembed_models' =
                 IF call.fn = "get_fastembed_model"
                 THEN StoreLoaded(fastembed_models, call, t, ok)
                 ELSE fastembed_models
            /\ st_models' =
                 IF call.fn = "get_st_model"
                 THEN StoreLoaded(st_models, call, t, ok)
                 ELSE st_models
            /\ reranker_models' =
                 IF call.fn = "get_reranker_model"
                 THEN StoreLoaded(reranker_models, call, t, ok)
                 ELSE reranker_models
            /\ loadedOK' = IF ok THEN loadedOK \cup {EntryOf(call)} ELSE loadedOK
            /\ failedKeys' = IF ok THEN failedKeys ELSE failedKeys \cup {EntryOf(call)}
            /\ th' = [u \in Threads |->
                        IF u # t
                        THEN Observe(th[u], Keys(fastembed_models', st_models',
                                                 reranker_models'))
                        ELSE IF ok THEN [th[t] EXCEPT !.pc = "return"]
                        ELSE OnRaise(th[t])]
    /\ UNCHANGED service

\* `return cache[key]` (lines 78, 89, 101) and the handler's use of the
\* instance it is given.
GetReturn(t, scoreVals) ==
    /\ th[t].pc = "return"
    /\ \E out \in InferenceOutcomes(th[t], scoreVals) :
        th' = [th EXCEPT ![t] =
                 AfterGet([@ EXCEPT !.out = out],
                          CacheOf(@.call.fn)[CacheKey(@.call)], out)]
    /\ UNCHANGED <<fastembed_models, st_models, reranker_models, loadedOK, failedKeys, service>>

-----------------------------------------------------------------------------
(* Inputs *)

E5 == "intfloat/multilingual-e5-large"
RB == "BAAI/bge-reranker-base"
ST == "sentence-transformers"

\* Requests of the concurrent specification: a supported and an unsupported
\* fastembed model, a sentence-transformers model with both values of
\* trust_remote_code, an unknown method, a missing field.
ConcEmbedReqs ==
    { EmbedReq("fastembed", E5, "hello", FALSE),
      EmbedReq("fastembed", RB, "hello", FALSE),
      EmbedReq(ST, E5, "hello", FALSE),
      EmbedReq(ST, E5, "hello", TRUE),
      EmbedReq("onnx", E5, "hello", FALSE),
      EmbedReq("fastembed", E5, "", FALSE) }

ConcRerankReqs ==
    { RerankReq("fastembed", RB, "q", <<"d1">>, <<>>, FALSE),
      RerankReq("fastembed", E5, "q", <<"d1">>, <<>>, FALSE),
      RerankReq("onnx", RB, "q", <<"d1">>, <<>>, FALSE) }

ConcWarmReqs ==
    { WarmupReq(<<WarmEntry("fastembed", E5, FALSE)>>,
                <<WarmEntry("fastembed", RB, FALSE)>>) }

\* Sequences over S of length 0..n.
SeqsUpTo(S, n) == UNION {[1..k -> S] : k \in 0..n}

\* documents lists "d1", ..., "dn" for n = 0..MaxDocs.
DocLists == {[i \in 1..n |-> "d" \o ToString(i)] : n \in 0..MaxDocs}

\* top_n: absent, or any integer of -MaxTop..MaxTop.
TopNs == {<<>>} \cup {<<k>> : k \in -MaxTop..MaxTop}

\* /rerank requests of the sequential rerank specification: both providers
\* with every documents list and top_n, and the requests that are rejected
\* or that differ in trust_remote_code.
SeqRerankReqs ==
    { RerankReq(m, RB, "q", docs, top, FALSE) :
        m \in {"fastembed", ST}, docs \in DocLists, top \in TopNs }
    \cup
    { RerankReq("fastembed", E5, "q", <<"d1">>, <<>>, FALSE),
      RerankReq("onnx", RB, "q", <<"d1">>, <<>>, FALSE),
      Lacking(RerankReq("", RB, "q", <<"d1">>, <<>>, FALSE), "method"),
      RerankReq("fastembed", "", "q", <<"d1">>, <<>>, FALSE),
      RerankReq("fastembed", RB, "", <<"d1">>, <<>>, FALSE),
      RerankReq(ST, RB, "q", <<"d1">>, <<>>, TRUE) }

\* Entries of /warmup's models list: a loadable model, a model fastembed
\* does not support, a sentence-transformers model, an unknown method, a
\* missing method.
WarmModelEntries ==
    { WarmEntry("fastembed", E5, FALSE),
      WarmEntry("fastembed", RB, FALSE),
      WarmEntry(ST, E5, FALSE),
      WarmEntry("onnx", E5, FALSE),
      Lacking(WarmEntry("", E5, FALSE), "method") }

\* Entries of /warmup's rerankers list: a loadable reranker, an unknown
\* method, a missing model.
WarmRerankerEntries ==
    { WarmEntry(ST, RB, FALSE),
      WarmEntry("onnx", RB, FALSE),
      WarmEntry("fastembed", "", FALSE) }

SeqWarmReqs ==
    { WarmupReq(ms, rs) :
        ms \in SeqsUpTo(WarmModelEntries, MaxWarmModels),
        rs \in SeqsUpTo(WarmRerankerEntries, MaxWarmRerankers) }
    \cup
    { NonObjectReq("warmup"),
      WarmupReq(<<WarmEntry("fastembed", E5, FALSE), NonObjectEntry>>, <<>>) }

\* texts lists "t1", ..., "tn" for n = 0..MaxTexts.
TextLists == {[i \in 1..n |-> "t" \o ToString(i)] : n \in 0..MaxTexts}

\* /embed requests of the sequential specification: both providers, an
\* unsupported model, an unknown method, the text "None", and each required
\* field missing (absent or empty).
SeqEmbedReqs ==
    { EmbedReq("fastembed", E5, "hello", FALSE),
      EmbedReq("fastembed", RB, "hello", FALSE),
      EmbedReq(ST, E5, "hello", FALSE),
      EmbedReq("onnx", E5, "hello", FALSE),
      EmbedReq("fastembed", E5, "None", FALSE),
      Lacking(EmbedReq("", E5, "hello", FALSE), "method"),
      EmbedReq("", E5, "hello", FALSE),
      Lacking(EmbedReq("fastembed", "", "hello", FALSE), "model"),
      EmbedReq(ST, "", "hello", FALSE),
      Lacking(EmbedReq("fastembed", E5, "", FALSE), "text"),
      EmbedReq(ST, E5, "", FALSE),
      NonObjectReq("embed") }

\* /embed/batch requests of the sequential specification: both providers
\* with every texts list (the empty one is also what a missing `texts`
\* defaults to), an unknown method, a missing method, a missing model.
SeqBatchReqs ==
    { BatchReq(m, E5, texts, FALSE) : m \in {"fastembed", ST}, texts \in TextLists }
    \cup
    { BatchReq("onnx", E5, <<"t1">>, FALSE),
      Lacking(BatchReq("", E5, <<"t1">>, FALSE), "method"),
      BatchReq("fastembed", "", <<"t1">>, FALSE),
      NonObjectReq("embed_batch") }

\* /rerank requests of the sequential specification: a reranker under each
\* provider, the name of an embedding model as a reranker, and each
\* required field missing.
FewRerankReqs ==
    { RerankReq("fastembed", RB, "q", <<"d1">>, <<>>, FALSE),
      RerankReq(ST, RB, "q", <<"d1">>, <<>>, FALSE),
      RerankReq(ST, E5, "q", <<"d1">>, <<>>, FALSE),
      Lacking(RerankReq("", RB, "q", <<"d1">>, <<>>, FALSE), "method"),
      RerankReq("fastembed", "", "q", <<"d1">>, <<>>, FALSE),
      Lacking(RerankReq("fastembed", RB, "", <<"d1">>, <<>>, FALSE), "text"),
      RerankReq("fastembed", RB, "", <<"d1">>, <<>>, FALSE),
      RerankReq("fastembed", RB, "q", <<>>, <<>>, FALSE),
      NonObjectReq("rerank") }

\* /embed requests that load a model into each of the two embedding caches.
ProbeEmbedReqs ==
    { EmbedReq("fastembed", E5, "hello", FALSE),
      EmbedReq(ST, E5, "hello", FALSE) }

-----------------------------------------------------------------------------
(* docker/embed-service/embed-service.py and                                 *)
(* docker/rerank-service/rerank-service.py: one global model each            *)
(*                                                                           *)
(* Each service is a process of its own whose requests run in threads        *)
(* (gunicorn --threads 2 --worker-class gthread, or app.run(threaded=True)   *)
(* when run as a script).  get_model() reads and writes the global without   *)
(* any lock, so a request thread stops at each of its accesses:              *)
(*                                                                           *)
(*    "check"   the test `fastembed_model is None`     (line 27 / 26)        *)
(*    "load"    the constructor call and the assignment (line 31 / 30)       *)
(*    "return"  the read `return fastembed_model`      (line 34 / 33)        *)

Services == {"embed-service", "rerank-service"}

\* The request threads of a service that are modelled.
Workers == {1, 2}

MODEL_DIMENSION == 1024

\* MODEL_NAME of a service.
MODEL_NAME(s) == IF s = "embed-service" THEN E5 ELSE RB

\* The global `fastembed_model` or `reranker_model` of a service.
GlobalModel(s) == IF s = "embed-service" THEN fastembed_model ELSE reranker_model

\* The object TextEmbedding(model_name=MODEL_NAME) or
\* TextCrossEncoder(model_name=MODEL_NAME) returns to thread t; 0 is the
\* thread that runs the module-level code and the __main__ block.
ServiceInstance(s, t) ==
    IF s = "embed-service"
    THEN Instance("TextEmbedding", MODEL_NAME(s), FALSE, t)
    ELSE Instance("TextCrossEncoder", MODEL_NAME(s), FALSE, t)

\* get_model() called while no request thread runs (by preload_model, at
\* import time or in the __main__ block): the global is returned when it is
\* not None; otherwise the constructor is called, and its result is stored in
\* the global before it is returned, or it raises and the global stays None.
get_model(s, loadOk) ==
    IF GlobalModel(s) # NoInst
    THEN [raised |-> FALSE, model |-> GlobalModel(s), load |-> "none"]
    ELSE IF loadOk
    THEN [raised |-> FALSE, model |-> ServiceInstance(s, 0), load |-> "ok"]
    ELSE [raised |-> TRUE, model |-> NoInst, load |-> "raised"]

\* What one inference call of a service does: it raises, or returns a list
\* of up to MaxProbe results.  A vector is modelled by its number of
\* components (MODEL_DIMENSION or one less), a score is 0 or 1.
ProbeOutcomes(s) ==
    LET vals == IF s = "embed-service"
                THEN {MODEL_DIMENSION - 1, MODEL_DIMENSION}
                ELSE {0, 1}
    IN  {[ok |-> TRUE, result |-> r] : r \in SeqsUpTo(vals, MaxProbe)}
        \cup {[ok |-> FALSE, result |-> <<>>]}

\* Mutant of ExpectedShape: only the number of results is tested.
ExpectedShape_CountOnly(s, result) == Len(result) = 1

\* The test /ready makes of the result:
\*   len(test_result) == 1 and len(test_result[0]) == MODEL_DIMENSION
\*   len(test_scores) == 1
ExpectedShape(s, result) ==
    IF s = "embed-service"
    THEN Len(result) = 1 /\ result[1] = MODEL_DIMENSION
    ELSE Len(result) = 1

NoProbeOut == [ok |-> TRUE, result |-> <<>>]

\* The parsed JSON body of a POST to a service: /embed reads `text`,
\* /embed/batch reads `texts` (held in `documents`), /rerank reads `query`
\* (held in `text`), `documents` and `top_n`.
ServiceReq(kind, text, documents, top_n) ==
    Req(kind, "", "", text, documents, top_n, FALSE, <<>>, <<>>)

\* A request thread of a service that is not inside a handler.  `endpoint`
\* is the handler it runs and `req` the body it was sent; `status` and
\* `model_loaded` (what /health and /models report), `results`, `count` and
\* `dimension` are its response.  `arrived_unloaded` (the global was None
\* when the request arrived), `was_loaded` (the None test of get_model()
\* found the global set), `load` (what the constructor call of this thread
\* did: "none" when it made none, "ok", "raised"), `called` (the handler made
\* its inference call), `model` (the object get_model() returned) and `out`
\* (the outcome of the inference call) are history.
IdleWorker ==
    [pc |-> "idle", endpoint |-> "none", req |-> NoReq, status |-> 0,
     model_loaded |-> FALSE, results |-> <<>>, count |-> 0, dimension |-> 0,
     arrived_unloaded |-> FALSE, was_loaded |-> FALSE, load |-> "none",
     called |-> FALSE, model |-> NoInst, out |-> NoProbeOut]

\* The handler returns with a status.
Answer(w, status) == [w EXCEPT !.pc = "done", !.status = status]

\* The handler calls get_model(): its first shared access is the None test.
CallingGetModel(w) == [w EXCEPT !.pc = "check"]

\* A handler of a service from the arrival of the request to its first shared
\* access or to its return.  /ready and /warmup call get_model() at once;
\* /embed, /embed/batch and /rerank read the body (data.get, outside the try
\* block) and answer 400 on a missing or empty field; /health and /models
\* read the global once; /live reads nothing.
ServiceStart(s, endpoint, r) ==
    LET w == [IdleWorker EXCEPT !.endpoint = endpoint, !.req = r,
                                !.arrived_unloaded = GlobalModel(s) = NoInst]
    IN  CASE endpoint \in {"ready", "warmup"} -> CallingGetModel(w)
          [] endpoint \in {"health", "models"} ->
                Answer([w EXCEPT !.model_loaded = GlobalModel(s) # NoInst], 200)
          [] endpoint = "live" -> Answer(w, 200)
          [] r.json # "object" -> [w EXCEPT !.pc = "escaped"]
          [] endpoint = "embed" ->
                IF ~Truthy(r, "text") THEN Answer(w, 400)
                ELSE CallingGetModel(w)
          [] endpoint = "embed_batch" ->
                IF r.documents = <<>> THEN Answer(w, 400)
                ELSE CallingGetModel(w)
          [] endpoint = "rerank" ->
                IF ~Truthy(r, "text") \/ r.documents = <<>> THEN Answer(w, 400)
                ELSE CallingGetModel(w)

\* The except clause of a handler: 503 for /ready, 500 for the others.
ServiceExcept(w) == Answer(w, IF w.endpoint = "ready" THEN 503 ELSE 500)

\* The handler from the return of get_model() to its own return; w.out is
\* what the inference call did.  /embed reads embeddings[0] (IndexError on an
\* empty list), /rerank reads documents[idx] for every entry that is left
\* after the slice (IndexError when the model returned more scores than
\* there are documents); both are inside the try block.
AfterGetModel(s, w) ==
    LET res == w.out.result
    IN  IF ~w.out.ok THEN ServiceExcept(w)
        ELSE CASE w.endpoint = "ready" ->
                    IF ExpectedShape(s, res) THEN Answer(w, 200) ELSE Answer(w, 503)
               [] w.endpoint = "warmup" -> Answer(w, 200)
               [] w.endpoint = "embed" ->
                    IF res = <<>> THEN ServiceExcept(w)
                    ELSE Answer([w EXCEPT !.dimension = res[1]], 200)
               [] w.endpoint = "embed_batch" ->
                    Answer([w EXCEPT !.results = res, !.count = Len(res),
                                     !.dimension = IF res # <<>> THEN res[1] ELSE 0],
                           200)
               [] w.endpoint = "rerank" ->
                    LET kept == ApplyTopN(SortDesc(IndexedScores(res)), w.req.top_n)
                    IN  IF \E j \in 1..Len(kept) : kept[j][1] >= Len(w.req.documents)
                        THEN ServiceExcept(w)
                        ELSE Answer([w EXCEPT
                                        !.results = BuildResults(kept, w.req.documents),
                                        !.count = Len(kept)], 200)

\* The start of a service process.  `mode` is how the module is run: as a
\* "script" (python embed-service.py, __name__ == '__main__') or imported by
\* "gunicorn"; `env` is whether GUNICORN_PRELOAD is '1'; `phase` is "import"
\* (module-level code has not run), "main" (the __main__ block is about to
\* run), "serving" (requests are accepted), "exited" (the process has died)
\* or "off"; `imported` and `main` tell what the preload_model() call of the
\* module level and of the __main__ block did ("none": not reached,
\* "skipped", "ok", "raised").
Boot(mode, env, phase, imported, main) ==
    [mode |-> mode, env |-> env, phase |-> phase, imported |-> imported,
     main |-> main]

\* A service that is not running.
NotStarted == Boot("gunicorn", FALSE, "off", "none", "none")

\* The service accepts requests: gunicorn serves the imported app, or
\* app.run has been called.
Serving(s) == boot[s].phase = "serving"

\* The entry of the load histories that stands for the global of a service.
ServiceEntry(s) == <<"get_model", MODEL_NAME(s)>>

\* loadedOK and failedKeys after a constructor call of a service that
\* returned (load = "ok") or raised (load = "raised"); "none": no call.
Loaded(s, load) ==
    /\ loadedOK' = IF load = "ok" THEN loadedOK \cup {ServiceEntry(s)} ELSE loadedOK
    /\ failedKeys' =
          IF load = "raised" THEN failedKeys \cup {ServiceEntry(s)} ELSE failedKeys

\* Mutant of SetGlobal: the constructed model is not kept in the global.
SetGlobal_KeepsNothing(s, model) ==
    /\ fastembed_model' = fastembed_model
    /\ reranker_model' = reranker_model

\* The assignment to the global inside get_model().
SetGlobal(s, model) ==
    /\ fastembed_model' = IF s = "embed-service" THEN model ELSE fastembed_model
    /\ reranker_model' = IF s = "rerank-service" THEN model ELSE reranker_model

\* A request arrives at an idle thread of a running service.
Receive(s, t, endpoint, r) ==
    /\ Serving(s)
    /\ worker[s][t].pc = "idle"
    /\ worker' = [worker EXCEPT ![s][t] = ServiceStart(s, endpoint, r)]
    /\ UNCHANGED <<fastembed_models, st_models, reranker_models, th, loadedOK, failedKeys>>
    /\ UNCHANGED <<fastembed_model, reranker_model, boot>>

\* GET /ready (embed-service lines 49-60, rerank-service lines 47-58).
ready(s, t) == Receive(s, t, "ready", NoReq)

\* POST /warmup of a service (embed-service lines 154-177, rerank-service
\* lines 139-162): get_model() and one dummy inference, whose result is
\* not looked at.
service_warmup(s, t) == Receive(s, t, "warmup", NoReq)

\* POST /embed of the embed-service (lines 69-108).
service_embed(t, reqs) ==
    \E r \in reqs : Receive("embed-service", t, "embed", r)

\* POST /embed/batch of the embed-service (lines 111-151).
service_embed_batch(t, reqs) ==
    \E r \in reqs : Receive("embed-service", t, "embed_batch", r)

\* POST /rerank of the rerank-service (lines 67-136).
service_rerank(t, reqs) ==
    \E r \in reqs : Receive("rerank-service", t, "rerank", r)

\* GET /health of a service: 'model_loaded': fastembed_model is not None.
service_health(s, t) == Receive(s, t, "health", NoReq)

\* GET /live of a service.
live(s, t) == Receive(s, t, "live", NoReq)

\* GET /models of a service: 'loaded': MODEL_NAME if fastembed_model else None.
service_list_models(s, t) == Receive(s, t, "models", NoReq)

\* `if fastembed_model is None:` (line 27 / 26).
get_model_check(s, t) ==
    /\ worker[s][t].pc = "check"
    /\ worker' = [worker EXCEPT ![s][t] =
                    IF GlobalModel(s) # NoInst
                    THEN [@ EXCEPT !.pc = "return", !.was_loaded = TRUE]
                    ELSE [@ EXCEPT !.pc = "load", !.was_loaded = FALSE]]
    /\ UNCHANGED <<fastembed_models, st_models, reranker_models, th, loadedOK, failedKeys>>
    /\ UNCHANGED <<fastembed_model, reranker_model, boot>>

\* fastembed_model = TextEmbedding(model_name=MODEL_NAME) (line 31 / 30): the
\* constructor, which ran since the test without holding any lock, returns
\* and its result is assigned to the global, whatever the global holds by
\* now; or it raises and the handler's except clause answers.
get_model_load(s, t) ==
    /\ worker[s][t].pc = "load"
    /\ \E loadOk \in BOOLEAN :
        /\ SetGlobal(s, IF loadOk THEN ServiceInstance(s, t) ELSE GlobalModel(s))
        /\ Loaded(s, IF loadOk THEN "ok" ELSE "raised")
        /\ worker' = [worker EXCEPT ![s][t] =
                        IF loadOk
                        THEN [@ EXCEPT !.pc = "return", !.load = "ok"]
                        ELSE ServiceExcept([@ EXCEPT !.load = "raised"])]
    /\ UNCHANGED <<fastembed_models, st_models, reranker_models, th>>
    /\ UNCHANGED boot

\* `return fastembed_model` (line 34 / 33), the inference call the handler
\* makes on the object it is given and the rest of the handler.
get_model_return(s, t) ==
    /\ worker[s][t].pc = "return"
    /\ \E out \in ProbeOutcomes(s) :
        worker' = [worker EXCEPT ![s][t] =
                     AfterGetModel(s, [@ EXCEPT !.model = GlobalModel(s),
                                                !.called = TRUE, !.out = out])]
    /\ UNCHANGED <<fastembed_models, st_models, reranker_models, th, loadedOK, failedKeys>>
    /\ UNCHANGED <<fastembed_model, reranker_model, boot>>

\* The response is sent (the handler's, or the one the framework makes of an
\* exception that left the handler) and the thread is free again.
service_finish(s, t) ==
    /\ worker[s][t].pc \in {"done", "escaped"}
    /\ worker' = [worker EXCEPT ![s][t] = IdleWorker]
    /\ UNCHANGED <<fastembed_models, st_models, reranker_models, th, loadedOK, failedKeys>>
    /\ UNCHANGED <<fastembed_model, reranker_model, boot>>

\* Bodies of POST /embed, /embed/batch and /rerank of the services: a
\* well-formed one, each required field absent or empty, a body that is a
\* list.
ServiceEmbedReqs ==
    { ServiceReq("embed", "hello", <<>>, <<>>),
      ServiceReq("embed", "", <<>>, <<>>),
      Lacking(ServiceReq("embed", "", <<>>, <<>>), "text"),
      NonObjectReq("embed") }

ServiceBatchReqs ==
    { ServiceReq("embed_batch", "", <<"t1", "t2">>, <<>>),
      ServiceReq("embed_batch", "", <<>>, <<>>),
      NonObjectReq("embed_batch") }

ServiceRerankReqs ==
    { ServiceReq("rerank", "q", <<"d1", "d2">>, top) : top \in {<<>>, <<1>>} }
    \cup
    { ServiceReq("rerank", "q", <<>>, <<>>),
      Lacking(ServiceReq("rerank", "", <<"d1">>, <<>>), "text"),
      NonObjectReq("rerank") }

\* Mutant of AfterImportPreload: the module-level preload has no try block,
\* a failure ends the process.
AfterImportPreload_Propagates(b, runs, raised) ==
    [b EXCEPT
        !.imported = IF ~runs THEN "skipped" ELSE IF raised THEN "raised" ELSE "ok",
        !.phase = IF runs /\ raised THEN "exited"
                  ELSE IF b.mode = "script" THEN "main" ELSE "serving"]

\* The end of the module-level code (embed-service lines 198-203):
\*   if os.environ.get('GUNICORN_PRELOAD') == '1' or __name__ != '__main__':
\*       try: preload_model()
\*       except Exception as e: logger.warning(...)
\* A failure of the preload is logged and swallowed.  A script goes on to
\* its __main__ block; an imported module is served by gunicorn.
AfterImportPreload(b, runs, raised) ==
    [b EXCEPT
        !.imported = IF ~runs THEN "skipped" ELSE IF raised THEN "raised" ELSE "ok",
        !.phase = IF b.mode = "script" THEN "main" ELSE "serving"]

\* Mutant of AfterMainPreload: the failure of the preload is swallowed and
\* app.run is called.
AfterMainPreload_Swallows(b, raised) ==
    [b EXCEPT !.main = IF raised THEN "raised" ELSE "ok", !.phase = "serving"]

\* The end of the __main__ block (embed-service lines 234-237):
\*   preload_model()
\*   app.run(host=args.host, port=args.port, debug=args.debug, threaded=True)
\* preload_model() is not inside a try: when it raises, the exception ends
\* the script and app.run is never reached.
AfterMainPreload(b, raised) ==
    [b EXCEPT !.main = IF raised THEN "raised" ELSE "ok",
              !.phase = IF raised THEN "exited" ELSE "serving"]

\* The module-level code of a service runs (the module is imported by
\* gunicorn or executed as a script).
module_preload(s) ==
    /\ boot[s].phase = "import"
    /\ \E loadOk \in BOOLEAN :
        LET runs == boot[s].env \/ boot[s].mode # "script"
            g    == get_model(s, loadOk)
        IN  /\ SetGlobal(s, IF runs THEN g.model ELSE GlobalModel(s))
            /\ Loaded(s, IF runs THEN g.load ELSE "none")
            /\ boot' = [boot EXCEPT ![s] = AfterImportPreload(@, runs, g.raised)]
    /\ UNCHANGED <<fastembed_models, st_models, reranker_models, th>>
    /\ UNCHANGED worker

\* The __main__ block of a service started as a script runs.
main(s) ==
    /\ boot[s].phase = "main"
    /\ \E loadOk \in BOOLEAN :
        LET g == get_model(s, loadOk)
        IN  /\ SetGlobal(s, g.model)
            /\ Loaded(s, g.load)
            /\ boot' = [boot EXCEPT ![s] = AfterMainPreload(@, g.raised)]
    /\ UNCHANGED <<fastembed_models, st_models, reranker_models, th>>
    /\ UNCHANGED worker

-----------------------------------------------------------------------------
(* Specifications *)

\* scripts/embed-server.py after start-up: empty caches, idle threads.  The
\* two single-model services are not running.
Init ==
    /\ fastembed_models = <<>>
    /\ st_models = <<>>
    /\ reranker_models = <<>>
    /\ th = [t \in Threads |-> IdleThread]
    /\ loadedOK = {}
    /\ failedKeys = {}
    /\ fastembed_model = NoInst
    /\ reranker_model = NoInst
    /\ worker = [s \in Services |-> [t \in Workers |-> IdleWorker]]
    /\ boot = [s \in Services |-> NotStarted]

\* The threaded server: every thread may take any step at any time.
Next ==
    \E t \in Threads :
        \/ embed(t, ConcEmbedReqs)
        \/ rerank(t, ConcRerankReqs)
        \/ warmup(t, ConcWarmReqs)
        \/ health(t)
        \/ list_models(t)
        \/ ReadKeys(t)
        \/ GetCheck(t)
        \/ GetLoad(t)
        \/ GetReturn(t, {0})
        \/ finish(t)

Spec == Init /\ [][Next]_vars

\* One request at a time, /rerank only, with every documents list, top_n
\* and score vector within the bounds.
NextRerank ==
    \/ rerank(1, SeqRerankReqs)
    \/ GetCheck(1)
    \/ GetLoad(1)
    \/ GetReturn(1, 0..MaxScore)
    \/ finish(1)

SpecRerank == Init /\ [][NextRerank]_vars

\* One request at a time, /warmup only, with every pair of lists within the
\* bounds.
NextWarmup ==
    \/ warmup(1, SeqWarmReqs)
    \/ GetCheck(1)
    \/ GetLoad(1)
    \/ GetReturn(1, {0})
    \/ finish(1)

SpecWarmup == Init /\ [][NextWarmup]_vars

\* One request at a time: the three inference endpoints and the two
\* read-only endpoints, with well-formed and ill-formed bodies.
NextSeq ==
    \/ embed(1, SeqEmbedReqs)
    \/ embed_batch(1, SeqBatchReqs)
    \/ rerank(1, FewRerankReqs)
    \/ health(1)
    \/ list_models(1)
    \/ ReadKeys(1)
    \/ GetCheck(1)
    \/ GetLoad(1)
    \/ GetReturn(1, {0})
    \/ finish(1)

SpecSeq == Init /\ [][NextSeq]_vars

\* One of the two single-model services after start-up (each is a process
\* of its own; the other one is not running).  The module calls
\* preload_model() when gunicorn imports it and swallows its failure
\* ("will load on first request"), so the service starts with its model
\* loaded or with the global still None.
InitService ==
    /\ fastembed_models = <<>>
    /\ st_models = <<>>
    /\ reranker_models = <<>>
    /\ th = [t \in Threads |-> IdleThread]
    /\ worker = [s \in Services |-> [t \in Workers |-> IdleWorker]]
    /\ \E s \in Services, loaded \in BOOLEAN :
        /\ loadedOK = IF loaded THEN {ServiceEntry(s)} ELSE {}
        /\ failedKeys = IF loaded THEN {} ELSE {ServiceEntry(s)}
        /\ fastembed_model =
              IF s = "embed-service" /\ loaded THEN ServiceInstance(s, 0) ELSE NoInst
        /\ reranker_model =
              IF s = "rerank-service" /\ loaded THEN ServiceInstance(s, 0) ELSE NoInst
        /\ boot = [x \in Services |->
                     IF x = s
                     THEN Boot("gunicorn", FALSE, "serving",
                               IF loaded THEN "ok" ELSE "raised", "none")
                     ELSE NotStarted]

\* The steps of the request threads of a running service.
ServiceSteps(s, t) ==
    \/ ready(s, t)
    \/ service_health(s, t)
    \/ live(s, t)
    \/ service_list_models(s, t)
    \/ service_warmup(s, t)
    \/ get_model_check(s, t)
    \/ get_model_load(s, t)
    \/ get_model_return(s, t)
    \/ service_finish(s, t)

\* The threaded service: every thread may take any step at any time.
NextService ==
    \E t \in Workers :
        \/ \E s \in Services : ServiceSteps(s, t)
        \/ service_embed(t, ServiceEmbedReqs)
        \/ service_embed_batch(t, ServiceBatchReqs)
        \/ service_rerank(t, ServiceRerankReqs)

SpecService == InitService /\ [][NextService]_vars

\* One of the two single-model services from the start of its process: it
\* is run as a script or imported by gunicorn, with GUNICORN_PRELOAD set or
\* not.
InitBoot ==
    /\ fastembed_models = <<>>
    /\ st_models = <<>>
    /\ reranker_models = <<>>
    /\ th = [t \in Threads |-> IdleThread]
    /\ loadedOK = {}
    /\ failedKeys = {}
    /\ fastembed_model = NoInst
    /\ reranker_model = NoInst
    /\ worker = [s \in Services |-> [t \in Workers |-> IdleWorker]]
    /\ \E s \in Services, m \in {"script", "gunicorn"}, e \in BOOLEAN :
        boot = [x \in Services |->
                   IF x = s THEN Boot(m, e, "import", "none", "none") ELSE NotStarted]

NextBoot ==
    \/ \E s \in Services :
            \/ module_preload(s)
            \/ main(s)
    \/ \E t \in Workers :
            \/ \E s \in Services : ServiceSteps(s, t)
            \/ service_embed(t, {ServiceReq("embed", "hello", <<>>, <<>>)})
            \/ service_embed_batch(t, {ServiceReq("embed_batch", "", <<"t1">>, <<>>)})
            \/ service_rerank(t, {ServiceReq("rerank", "q", <<"d1">>, <<>>)})

SpecBoot == InitBoot /\ [][NextBoot]_vars

\* One of the three programs runs, each being a process of its own: the
\* multi-model server with its two request threads (no service is serving),
\* or one of the two services with its two request threads.
InitPrograms == Init \/ InitService

NextPrograms ==
    \/ (\A s \in Services : ~Serving(s)) /\ Next
    \/ NextService

SpecPrograms == InitPrograms /\ [][NextPrograms]_vars

\* The read-only endpoints next to running loads: thread 1 of the
\* multi-model server answers /health and /models while thread 2 answers
\* /embed requests that load models, and a service answers /health, /live
\* and /models.
NextProbes ==
    \/ health(1)
    \/ list_models(1)
    \/ ReadKeys(1)
    \/ finish(1)
    \/ embed(2, ProbeEmbedReqs)
    \/ GetCheck(2)
    \/ GetLoad(2)
    \/ GetReturn(2, {0})
    \/ finish(2)
    \/ \E s \in Services :
            \/ service_health(s, 1)
            \/ live(s, 1)
            \/ service_list_models(s, 1)
            \/ service_finish(s, 1)

SpecProbes == InitService /\ [][NextProbes]_vars

-----------------------------------------------------------------------------
(* Vocabulary of the claims *)

\* The entries present in the three caches of the multi-model server and in
\* the global of each service, as <<cache, key>>.
Present ==
    {<<"get_fastembed_model", k>> : k \in DOMAIN fastembed_models}
    \cup {<<"get_st_model", k>> : k \in DOMAIN st_models}
    \cup {<<"get_reranker_model", k>> : k \in DOMAIN reranker_models}
    \cup {ServiceEntry(s) : s \in {x \in Services : GlobalModel(x) # NoInst}}

\* A thread holds the successful response of a handler that asked for one
\* model instance.
Served(t) == th[t].pc = "done" /\ th[t].resp.status = 200 /\ th[t].resp.inst # NoInst

-----------------------------------------------------------------------------
(* C1: for every cache entry at most one load is in flight at any time:      *)
(* two threads are never both inside the constructor call for the same key.  *)
C1_AtMostOneLoadInFlight ==
    \A t1, t2 \in Threads :
        (t1 # t2 /\ th[t1].pc = "load" /\ th[t2].pc = "load")
            => EntryOf(th[t1].call) # EntryOf(th[t2].call)

(* C2: in every reachable state a key is present in a model cache (one of   *)
(* the three dictionaries of the multi-model server, or the global of a      *)
(* single-model service being non-None) if and only if some load for that    *)
(* key has completed successfully; a load whose constructor raised leaves no *)
(* entry.                                                                    *)
C2_CachedIffLoaded == Present = loadedOK

\* The import-time preload of a service raised and left the global None; a
\* request thread has loaded the model since, while the constructor call of
\* the other request thread raised.
C2_Witness ==
    \E s \in Services, t, u \in Workers :
        /\ boot[s].imported = "raised"
        /\ ServiceEntry(s) \in failedKeys
        /\ GlobalModel(s) = ServiceInstance(s, t)
        /\ worker[s][u].pc = "done"
        /\ worker[s][u].load = "raised"

\* A load of one entry has raised, and a later call that found the entry
\* still absent has loaded it and been served the instance it stored.
RetriedAndServed(t) ==
    /\ Served(t)
    /\ th[t].retry
    /\ EntryOf(th[t].resp.call) \in Present
    /\ th[t].resp.inst.by = t

\* The cache a get-or-load function reads, in the next state.
CacheOfNext(fn) ==
    CASE fn = "get_fastembed_model" -> fastembed_models'
      [] fn = "get_st_model"        -> st_models'
      [] OTHER                      -> reranker_models'

(* C3: a failed load is not cached.  The step in which a constructor raises  *)
(* leaves the three caches as they were (a key that was Unloaded is still    *)
(* Unloaded); a later call that finds the key of a failed load absent starts *)
(* a fresh load instead of failing or returning a stale result; when that    *)
(* load succeeds the key is in the cache, and the call returns the cached    *)
(* instance to its handler.                                                  *)
C3_FailedLoadNotCached ==
    [][\A t \in Threads :
        LET a == th[t]
            b == th'[t]
            failed == a.pc = "load" /\ b # a /\ b.pc # "return"
            miss   == a.pc = "check" /\ b # a
                      /\ EntryOf(a.call) \in failedKeys
                      /\ EntryOf(a.call) \notin Present
            loaded == a.pc = "load" /\ b.pc = "return"
            back   == a.pc = "return" /\ b # a /\ a.retry
        IN  /\ failed => /\ fastembed_models' = fastembed_models
                         /\ st_models' = st_models
                         /\ reranker_models' = reranker_models
            /\ miss => (b.pc = "load" /\ b.call = a.call /\ b.retry)
            /\ loaded => CacheKey(a.call) \in DOMAIN CacheOfNext(a.call.fn)
            /\ back => /\ EntryOf(a.call) \in Present
                       /\ a.req.kind = "warmup" =>
                            (a.key \in DOMAIN b.warm /\ b.warm[a.key])
                       /\ (a.req.kind # "warmup" /\ b.resp.status = 200) =>
                            b.resp.inst = CacheOf(a.call.fn)[CacheKey(a.call)]
      ]_vars

\* A forced failure followed by a forced success: thread t was served by the
\* load it started after an earlier load of the same entry had raised.
C3_Witness == \E t \in Threads : RetriedAndServed(t)

-----------------------------------------------------------------------------
\* The supported set the tables of the source give for a call's provider and
\* capability.  The source has no table for sentence-transformers embedding
\* models, so no name is outside it.
InSupportedSet(call) ==
    CASE call.fn = "get_fastembed_model" -> call.model \in FASTEMBED_SUPPORTED
      [] call.fn = "get_st_model"        -> TRUE
      [] OTHER ->
            /\ call.method \in DOMAIN RERANKER_SUPPORTED
            /\ call.model \in RERANKER_SUPPORTED[call.method]

(* C4: for every provider and capability, a request whose model name is not  *)
(* in the supported set of that provider never reaches the model constructor *)
(* and never adds a cache entry.                                             *)
C4_UnsupportedNeverLoaded ==
    /\ \A t \in Threads : th[t].pc = "load" => InSupportedSet(th[t].call)
    /\ \A k \in DOMAIN reranker_models :
          \E m \in DOMAIN RERANKER_SUPPORTED :
              \E n \in RERANKER_SUPPORTED[m] : k = m \o ":" \o n
    /\ DOMAIN fastembed_models \subseteq FASTEMBED_SUPPORTED

(* C5: any two get-or-load calls with identical key fields return the same   *)
(* model instance, in every interleaving of the request threads.             *)
C5_SameKeySameInstance ==
    \A t1, t2 \in Threads :
        (Served(t1) /\ Served(t2) /\ th[t1].resp.call = th[t2].resp.call)
            => th[t1].resp.inst = th[t2].resp.inst

(* C6: the cache lookup key is the full composite identity, the code-trust   *)
(* flag included: a request is never given an instance that was loaded with  *)
(* another value of trust_remote_code.                                       *)
C6_TrustIsPartOfKey ==
    \A t \in Threads :
        (Served(t) /\ th[t].resp.inst.cls \in {"SentenceTransformer", "CrossEncoder"})
            => th[t].resp.inst.trust = th[t].resp.call.trust

-----------------------------------------------------------------------------
\* The state of entry e in the per-key state machine, given the caches'
\* entries and the threads.
KeyStateIn(e, present, threads) ==
    IF e \in present THEN "Loaded"
    ELSE IF \E t \in Threads : threads[t].pc = "load" /\ EntryOf(threads[t].call) = e
    THEN "Loading"
    ELSE "Unloaded"

\* Every entry some request of the model can name.
AllEntries ==
    Present \cup {EntryOf(th[t].call) : t \in {u \in Threads : th[u].call # NoCall}}

(* C7: each key follows Unloaded -> Loading -> {Loaded | Unloaded}, and      *)
(* Loaded is terminal: no step of any handler takes a key that is present in *)
(* a cache out of it.                                                        *)
C7_LoadedIsTerminal ==
    [][\A e \in AllEntries \cup AllEntries' :
        <<KeyStateIn(e, Present, th), KeyStateIn(e, Present', th')>> \in
            { <<"Unloaded", "Unloaded">>, <<"Unloaded", "Loading">>,
              <<"Loading", "Loading">>, <<"Loading", "Loaded">>,
              <<"Loading", "Unloaded">>, <<"Loaded", "Loaded">> }
      ]_vars

\* An entry is Loaded although a load of it has raised, while one thread holds
\* a /warmup response and the other a /health or /models response.
C7_Witness ==
    /\ \E e \in Present : e \in failedKeys
    /\ \E t1, t2 \in Threads :
        /\ th[t1].pc = "done" /\ th[t1].req.kind = "warmup"
        /\ th[t2].pc = "done" /\ th[t2].req.kind \in {"health", "models"}
        /\ th[t2].resp.loaded.fastembed # {}

(* C8: a cache entry is written once and never changed: no step replaces the *)
(* instance stored under a key that is already present.                      *)
C8_EntryNeverReplaced ==
    [][/\ \A k \in DOMAIN fastembed_models :
            k \in DOMAIN fastembed_models' /\ fastembed_models'[k] = fastembed_models[k]
       /\ \A k \in DOMAIN st_models :
            k \in DOMAIN st_models' /\ st_models'[k] = st_models[k]
       /\ \A k \in DOMAIN reranker_models :
            k \in DOMAIN reranker_models' /\ reranker_models'[k] = reranker_models[k]
      ]_vars

-----------------------------------------------------------------------------
\* Thread t holds the response of a /warmup request.
WarmupDone(t) == th[t].pc = "done" /\ th[t].req.kind = "warmup"

\* A /warmup entry names a method and a model.
Named(m) == Truthy(m, "method") /\ Truthy(m, "model")

\* The entries of a models list that name a model of one of the two
\* providers, and the entries of a rerankers list that name a model: the
\* entries for which there is something to load.
LoadableModels(r) ==
    LET Test(m) == Named(m) /\ m.method \in {"fastembed", ST}
    IN  SelectSeq(r.models, Test)

LoadableRerankers(r) == SelectSeq(r.rerankers, Named)

\* <<method, model>> of every entry of a sequence of entries or of calls.
Names(s) == [i \in 1..Len(s) |-> <<s[i].method, s[i].model>>]

(* C9: in the multi-model /warmup a failure to load one key does not abort   *)
(* the operation: the handler answers 200 with the per-key mapping, it has   *)
(* attempted, in order, every entry of the models list and then every entry  *)
(* of the rerankers list that names something to load, every named entry has *)
(* a result, and the result of an attempted entry is success exactly when    *)
(* its model is in the cache.                                                *)
C9_WarmupAttemptsEveryEntry ==
    \A t \in Threads :
        WarmupDone(t) =>
            LET r    == th[t].req
                resp == th[t].resp
            IN  /\ resp.status = 200
                /\ Names(th[t].tried) =
                      Names(LoadableModels(r)) \o Names(LoadableRerankers(r))
                /\ \A i \in 1..Len(r.models) :
                      Named(r.models[i]) =>
                          (r.models[i].method \o ":" \o r.models[i].model)
                              \in DOMAIN resp.warm
                /\ \A i \in 1..Len(r.rerankers) :
                      Named(r.rerankers[i]) =>
                          ("reranker:" \o r.rerankers[i].method \o ":" \o r.rerankers[i].model)
                              \in DOMAIN resp.warm
                /\ \A i \in 1..Len(th[t].tried) :
                      LET c == th[t].tried[i]
                          k == IF c.fn = "get_reranker_model"
                               THEN "reranker:" \o c.method \o ":" \o c.model
                               ELSE c.method \o ":" \o c.model
                      IN  resp.warm[k] = (EntryOf(c) \in Present)

\* A /warmup whose first entry failed in the constructor and whose later
\* entries, in the models list and in the rerankers list, were loaded.
C9_Witness ==
    \E t \in Threads :
        /\ WarmupDone(t)
        /\ th[t].req.models = <<WarmEntry("fastembed", E5, FALSE), WarmEntry(ST, E5, FALSE)>>
        /\ th[t].req.rerankers = <<WarmEntry(ST, RB, FALSE)>>
        /\ <<"get_fastembed_model", E5>> \in failedKeys
        /\ th[t].resp.warm =
              ("fastembed:" \o E5) :> FALSE
              @@ (ST \o ":" \o E5) :> TRUE
              @@ ("reranker:" \o ST \o ":" \o RB) :> TRUE

-----------------------------------------------------------------------------
\* Thread t holds the successful response of a /rerank request.
RerankOk(t) ==
    th[t].pc = "done" /\ th[t].req.kind = "rerank" /\ th[t].resp.status = 200

(* C10: a successful rerank response contains exactly                        *)
(* min(N, top_n) entries when top_n is given, for every integer top_n        *)
(* (0 and negative values included), and exactly N entries when it is absent.*)
C10_CountIsMinOfNAndTopN ==
    \A t \in Threads :
        RerankOk(t) =>
            LET n   == Len(th[t].req.documents)
                top == th[t].req.top_n
            IN  Len(th[t].resp.results) = IF top = <<>> THEN n ELSE Min(n, top[1])

(* C11: in every successful rerank response the results are in              *)
(* non-increasing order of score, the index values are pairwise distinct     *)
(* positions of the documents list, each entry's document is                 *)
(* documents[index] and its score is the score the model returned for that   *)
(* position; with no top_n the indices are a permutation of 0..N-1.          *)
C11_SortedAndMappedBack ==
    \A t \in Threads :
        RerankOk(t) =>
            LET res  == th[t].resp.results
                docs == th[t].req.documents
                sc   == th[t].out.scores
            IN  /\ \A j \in 1..(Len(res) - 1) : res[j].score >= res[j + 1].score
                /\ \A j, k \in 1..Len(res) : j # k => res[j].index # res[k].index
                /\ \A j \in 1..Len(res) :
                        /\ res[j].index \in 0..(Len(docs) - 1)
                        /\ res[j].document = docs[res[j].index + 1]
                        /\ res[j].score = sc[res[j].index + 1]
                /\ th[t].req.top_n = <<>> =>
                        {res[j].index : j \in 1..Len(res)} = 0..(Len(docs) - 1)

\* Three documents scored 0, 2, 1 come back in the order 1, 2, 0.
C11_Witness ==
    \E t \in Threads :
        /\ RerankOk(t)
        /\ th[t].out.scores = <<0, 2, 1>>
        /\ th[t].req.top_n = <<>>
        /\ Len(th[t].resp.results) = 3
        /\ th[t].resp.results[1].index = 1
        /\ th[t].resp.results[2].index = 2
        /\ th[t].resp.results[3].index = 0

-----------------------------------------------------------------------------
(* C12: a request naming a model that the supported set of its provider     *)
(* does not contain (such as /embed with method fastembed and an unlisted    *)
(* model name) is answered with HTTP 400.                                    *)
C12_UnsupportedModelIs400 ==
    \A t \in Threads :
        ( /\ th[t].pc = "done"
          /\ th[t].req.kind \in {"embed", "rerank"}
          /\ th[t].resp.call # NoCall
          /\ th[t].resp.call.method \in {"fastembed", "sentence-transformers"}
          /\ ~InSupportedSet(th[t].resp.call) )
        => th[t].resp.status = 400

-----------------------------------------------------------------------------
\* A required field of the request's JSON object is missing or empty:
\* method, model and text for /embed; method, model and texts for
\* /embed/batch; method, model, query and documents for /rerank.
MissingField(r) ==
    LET empty(k) == k \in r.none \/ r[k] = ""
    IN  CASE r.json # "object" -> FALSE
          [] r.kind = "embed" -> empty("method") \/ empty("model") \/ empty("text")
          [] r.kind = "embed_batch" ->
                empty("method") \/ empty("model") \/ r.documents = <<>>
          [] r.kind = "rerank" ->
                empty("method") \/ empty("model") \/ empty("text")
                    \/ r.documents = <<>>
          [] OTHER -> FALSE

(* C13: a POST to /embed, /embed/batch or /rerank in which a required field  *)
(* is missing or empty is answered with HTTP 400 in the step that receives   *)
(* it: the handler makes no get-or-load call, calls no constructor and the   *)
(* three caches are the same before and after.                               *)
C13_MissingFieldIs400BeforeLookup ==
    [][ \A t \in Threads :
            ( /\ th[t].pc = "idle"
              /\ th'[t].pc # "idle"
              /\ MissingField(th'[t].req) )
            => /\ th'[t].pc = "done"
               /\ th'[t].resp.status = 400
               /\ th'[t].tried = <<>>
               /\ fastembed_models' = fastembed_models
               /\ st_models' = st_models
               /\ reranker_models' = reranker_models ]_vars

\* /embed/batch has rejected a request without texts while a model was in
\* the cache.
C13_Witness ==
    /\ th[1].pc = "done"
    /\ th[1].req.kind = "embed_batch"
    /\ th[1].req.documents = <<>>
    /\ th[1].resp.status = 400
    /\ Present # {}

-----------------------------------------------------------------------------
(* C14: every failure inside a POST handler is caught by the handler itself  *)
(* and returned as a response carrying an error message, for every request   *)
(* body (a JSON body that is not an object and a warmup list whose elements  *)
(* are not objects included): no exception leaves the handler function.      *)
C14_NoExceptionLeavesHandler ==
    \A t \in Threads : th[t].pc # "escaped"

-----------------------------------------------------------------------------
(* C15: /ready of a service answers 200 only if one real inference call on   *)
(* the default model returned a result of the expected shape (embed-service: *)
(* exactly one vector of MODEL_DIMENSION components; rerank-service: exactly *)
(* one score); in every other case (load failure, inference exception,       *)
(* result of the wrong shape) it answers 503.                                *)
C15_ReadyOnlyAfterRealInference ==
    \A s \in Services, t \in Workers :
        LET w == worker[s][t]
        IN  (w.pc = "done" /\ w.endpoint = "ready") =>
                LET shaped ==
                        /\ w.load # "raised"
                        /\ w.called
                        /\ w.model.name = MODEL_NAME(s)
                        /\ w.out.ok
                        /\ Len(w.out.result) = 1
                        /\ s = "embed-service" => w.out.result[1] = MODEL_DIMENSION
                IN  /\ shaped => w.status = 200
                    /\ ~shaped => w.status = 503

\* /ready of the embed-service has answered 503 to a single vector with one
\* component too few.
C15_Witness ==
    \E t \in Workers :
        LET w == worker["embed-service"][t]
        IN  /\ w.pc = "done"
            /\ w.endpoint = "ready"
            /\ w.out.ok
            /\ w.out.result = <<MODEL_DIMENSION - 1>>
            /\ w.status = 503

(* C16: GET /ready issued while no model has ever been loaded successfully   *)
(* (the global is still None) returns HTTP 503.                              *)
C16_ReadyBeforeAnyLoadIs503 ==
    \A s \in Services, t \in Workers :
        LET w == worker[s][t]
        IN  (w.pc = "done" /\ w.endpoint = "ready" /\ ~w.was_loaded) => w.status = 503

-----------------------------------------------------------------------------
(* C17: /health, /live and /models succeed in every cache state (nothing     *)
(* loaded, load in progress, loaded, after a failed load), perform no load   *)
(* and no inference and leave the model caches unchanged; the loaded keys    *)
(* that /health and /models report are exactly the keys the caches hold at   *)
(* one moment of the request.                                                *)
C17_ProbesSucceedAndChangeNothing ==
    [][ /\ \A t \in Threads :
            (th'[t].pc # th[t].pc /\ th'[t].req.kind \in {"health", "models"}) =>
                /\ fastembed_models' = fastembed_models
                /\ st_models' = st_models
                /\ reranker_models' = reranker_models
                /\ th'[t].tried = <<>>
                /\ th'[t].pc \in {"read_st", "read_rerankers", "done"}
                /\ th'[t].pc = "done" =>
                      /\ th'[t].resp.status = 200
                      /\ th'[t].resp.loaded \in th'[t].seen
        /\ \A s \in Services, t \in Workers :
            ( /\ worker'[s][t] # worker[s][t]
              /\ worker'[s][t].endpoint \in {"health", "live", "models"}
              /\ worker'[s][t].pc # "idle" ) =>
                /\ worker'[s][t].pc = "done"
                /\ worker'[s][t].status = 200
                /\ fastembed_model' = fastembed_model
                /\ reranker_model' = reranker_model
                /\ worker'[s][t].load = "none"
                /\ ~worker'[s][t].called
                /\ worker'[s][t].endpoint # "live" =>
                      worker'[s][t].model_loaded = (GlobalModel(s) # NoInst)
      ]_vars

-----------------------------------------------------------------------------
(* C18: in every successful batch-embed response to a request with N >= 1    *)
(* texts, count equals N, the i-th vector is the model's output for the i-th *)
(* text and every vector has as many components as the reported dimension:   *)
(* the handler does not answer success when the model yields another number  *)
(* of vectors or vectors of differing lengths.                               *)
C18_BatchCountAndDimension ==
    \A t \in Threads :
        ( /\ th[t].pc = "done"
          /\ th[t].req.kind = "embed_batch"
          /\ th[t].resp.status = 200 )
        => LET n   == Len(th[t].req.documents)
               emb == th[t].resp.embeddings
           IN  /\ th[t].resp.count = n
               /\ Len(emb) = n
               /\ \A i \in 1..Len(emb) :
                      /\ i <= Len(th[t].out.vecs) /\ emb[i] = th[t].out.vecs[i]
                      /\ emb[i] = th[t].resp.dimension

-----------------------------------------------------------------------------
(* C19: a request for a key that is already loaded never waits on another    *)
(* key: while a load of key B is in progress in one thread, a thread inside  *)
(* get-or-load for a loaded key A can take its next step, up to its          *)
(* response, and the loading thread need not move first.                     *)
C19_LoadedKeyNeverWaits ==
    \A t1, t2 \in Threads :
        ( /\ t1 # t2
          /\ th[t1].pc = "load"
          /\ th[t2].pc \in {"check", "return"}
          /\ th[t2].req.kind \in {"embed", "rerank"}
          /\ EntryOf(th[t2].call) \in Present
          /\ EntryOf(th[t2].call) # EntryOf(th[t1].call) )
        => ENABLED ( /\ GetCheck(t2) \/ GetReturn(t2, {0})
                     /\ th'[t1] = th[t1]
                     /\ th'[t2].pc = IF th[t2].pc = "check" THEN "return" ELSE "done" )

\* A thread holds the successful response for a loaded key while the
\* other thread is still inside the constructor call for another key.
C19_Witness ==
    \E t1, t2 \in Threads :
        /\ th[t1].pc = "load"
        /\ Served(t2)
        /\ th[t2].req.kind = "embed"
        /\ EntryOf(th[t2].resp.call) \in Present
        /\ EntryOf(th[t2].resp.call) # EntryOf(th[t1].call)

-----------------------------------------------------------------------------
(* C20: a cache hit does no load: no step of an embed, batch-embed or rerank *)
(* request inside get-or-load for a key that is in the cache calls the model *)
(* constructor or changes any of the three caches, whether the inference     *)
(* that follows succeeds or fails.                                           *)
C20_CacheHitDoesNoLoad ==
    [][ \A t \in Threads :
            ( /\ th'[t] # th[t]
              /\ th[t].req.kind \in {"embed", "embed_batch", "rerank"}
              /\ th[t].pc \in {"check", "return"}
              /\ EntryOf(th[t].call) \in Present )
            => /\ th'[t].pc = IF th[t].pc = "check" THEN "return" ELSE "done"
               /\ fastembed_models' = fastembed_models
               /\ st_models' = st_models
               /\ reranker_models' = reranker_models
               /\ loadedOK' = loadedOK
               /\ failedKeys' = failedKeys ]_vars

\* A batch-embed request that found its model in the cache has been answered
\* 500 because the inference raised, and the model is still in the cache.
C20_Witness ==
    \E t \in Threads :
        /\ th[t].pc = "done"
        /\ th[t].req.kind = "embed_batch"
        /\ th[t].hit
        /\ ~th[t].out.ok
        /\ th[t].resp.status = 500
        /\ EntryOf(th[t].resp.call) \in Present

-----------------------------------------------------------------------------
(* C21: the multi-model /warmup response reports every entry it was given:   *)
(* for each element of the models list and of the rerankers list (elements   *)
(* that lack method or model and elements that repeat a method and model     *)
(* included) the mapping has a result under that element's key.              *)
C21_WarmupReportsEveryEntry ==
    \A t \in Threads :
        WarmupDone(t) =>
            LET r    == th[t].req
                resp == th[t].resp
            IN  /\ \A i \in 1..Len(r.models) :
                      (r.models[i].method \o ":" \o r.models[i].model)
                          \in DOMAIN resp.warm
                /\ \A i \in 1..Len(r.rerankers) :
                      ("reranker:" \o r.rerankers[i].method \o ":" \o r.rerankers[i].model)
                          \in DOMAIN resp.warm

-----------------------------------------------------------------------------
(* C22: when a service is started as a script, the model is loaded before    *)
(* the server accepts any request: app.run is reached only after             *)
(* preload_model has returned, so every request served finds the model       *)
(* Loaded and triggers no load; if the preload raises, the server never      *)
(* starts accepting requests.                                                *)
C22_ScriptServesOnlyAfterPreload ==
    \A s \in Services :
        boot[s].mode = "script" =>
            /\ Serving(s) => (boot[s].main = "ok" /\ GlobalModel(s) # NoInst)
            /\ boot[s].main = "raised" => boot[s].phase = "exited"
            /\ \A t \in Workers :
                  LET w == worker[s][t]
                  IN  w.pc # "idle" =>
                          /\ Serving(s)
                          /\ w.pc # "load"
                          /\ w.load = "none"
                          /\ (w.pc = "return" \/ w.called) => w.was_loaded
                          /\ w.called => w.model # NoInst

\* A script whose __main__ preload succeeded has answered /ready with 200 on
\* the model the preload had put in place.
C22_Witness ==
    \E s \in Services, t \in Workers :
        /\ boot[s].mode = "script"
        /\ boot[s].main = "ok"
        /\ worker[s][t].pc = "done"
        /\ worker[s][t].endpoint = "ready"
        /\ worker[s][t].status = 200
        /\ worker[s][t].model = ServiceInstance(s, 0)

(* C23: when a service is imported by gunicorn and the import-time preload   *)
(* fails, the failure is swallowed: the application still starts, with the   *)
(* model Unloaded, and a later request that needs the model while it is      *)
(* Unloaded performs the load, after which the model is Loaded if that load  *)
(* succeeded.                                                                *)
C23_ImportPreloadFailureIsSwallowed ==
    [][ \A s \in Services :
            boot[s].mode = "gunicorn" =>
                /\ ( /\ boot[s].phase = "import"
                     /\ boot'[s].phase # "import"
                     /\ boot'[s].imported = "raised" )
                   => /\ boot'[s].phase = "serving"
                      /\ GlobalModel(s)' = NoInst
                /\ \A t \in Workers :
                      /\ ( /\ worker[s][t].pc = "check"
                           /\ worker'[s][t].pc # "check"
                           /\ GlobalModel(s) = NoInst )
                         => worker'[s][t].pc = "load"
                      /\ ( /\ worker[s][t].pc = "load"
                           /\ worker'[s][t].pc # "load" )
                         => /\ worker'[s][t].load \in {"ok", "raised"}
                            /\ worker'[s][t].load = "ok" =>
                                  /\ GlobalModel(s)' # NoInst
                                  /\ worker'[s][t].pc = "return"
                            /\ worker'[s][t].load = "raised" =>
                                  GlobalModel(s)' = GlobalModel(s)
      ]_vars

\* A service imported by gunicorn whose import-time preload failed has
\* answered 200 to a POST /embed or /rerank that arrived with the model
\* Unloaded and loaded it.
C23_Witness ==
    \E s \in Services, t \in Workers :
        /\ boot[s].mode = "gunicorn"
        /\ boot[s].imported = "raised"
        /\ worker[s][t].pc = "done"
        /\ worker[s][t].endpoint \in {"embed", "rerank"}
        /\ worker[s][t].status = 200
        /\ worker[s][t].arrived_unloaded
        /\ ~worker[s][t].was_loaded
        /\ worker[s][t].load = "ok"
        /\ GlobalModel(s) # NoInst

-----------------------------------------------------------------------------
(* C24: in the multi-model server, POST /rerank with all required fields     *)
(* present and a method that is neither fastembed nor sentence-transformers  *)
(* is answered HTTP 400 and adds no cache entry, as /embed and /embed/batch  *)
(* do for an unknown method.                                                 *)
C24_RerankUnknownMethodIs400 ==
    \A t \in Threads :
        ( /\ th[t].pc = "done"
          /\ th[t].req.kind = "rerank"
          /\ th[t].req.json = "object"
          /\ ~MissingField(th[t].req)
          /\ th[t].req.method \notin {"fastembed", "sentence-transformers"} )
        => /\ th[t].resp.status = 400
           /\ \A k \in DOMAIN reranker_models :
                 k # th[t].req.method \o ":" \o th[t].req.model

-----------------------------------------------------------------------------
(* C25: rerank results with equal scores appear in ascending order of        *)
(* original document index, for both providers: every entry is followed only *)
(* by entries of smaller score or of equal score and larger index, so for a  *)
(* fixed score vector and top_n the result list is fully determined.         *)
C25_TiesInAscendingIndex ==
    \A t \in Threads :
        RerankOk(t) =>
            LET res == th[t].resp.results
            IN  \A j, k \in 1..Len(res) :
                    j < k =>
                        \/ res[j].score > res[k].score
                        \/ res[j].score = res[k].score /\ res[j].index < res[k].index

\* Three documents scored 1, 2, 1 by sentence-transformers come back in the
\* order 1, 0, 2.
C25_Witness ==
    \E t \in Threads :
        /\ RerankOk(t)
        /\ th[t].req.method = ST
        /\ th[t].out.scores = <<1, 2, 1>>
        /\ th[t].req.top_n = <<>>
        /\ Len(th[t].resp.results) = 3
        /\ th[t].resp.results[1].index = 1
        /\ th[t].resp.results[2].index = 0
        /\ th[t].resp.results[3].index = 2

-----------------------------------------------------------------------------
\* What C26 says of a /ready or /warmup that has returned, given that the
\* request was one that starts a load.
LoadsAndKeeps(s, w) ==
    /\ w.load \in {"ok", "raised"}
    /\ w.load = "ok" =>
          /\ GlobalModel(s) # NoInst
          /\ w.called
          /\ ~w.out.ok => w.status = IF w.endpoint = "ready" THEN 503 ELSE 500

\* Once Loaded, a service stays Loaded.
StaysLoaded == \A s \in Services : GlobalModel(s) # NoInst => GlobalModel(s)' # NoInst

(* C26, as stated: in the two services /ready and /warmup are not read-only  *)
(* probes: called while the model is Unloaded they start a load, and         *)
(* whenever that load succeeds the model stays Loaded afterwards, even if    *)
(* the dummy inference that follows fails and the endpoint answers 503       *)
(* (ready) or 500 (warmup).                                                  *)
C26_CalledUnloadedStartsLoad ==
    [][ /\ StaysLoaded
        /\ \A s \in Services, t \in Workers :
              ( LET w == worker[s][t]
                IN  ( /\ w.pc = "done"
                      /\ w.endpoint \in {"ready", "warmup"}
                      /\ w.arrived_unloaded )
                    => LoadsAndKeeps(s, w) )' ]_vars

(* C26, amended: in the two services /ready and /warmup are not read-only    *)
(* probes: when the None test of their get_model() call finds the model      *)
(* Unloaded they start a load, and whenever that load succeeds the model     *)
(* stays Loaded afterwards, even if the dummy inference that follows fails   *)
(* and the endpoint answers 503 (ready) or 500 (warmup); a request that      *)
(* arrived while the model was Unloaded starts no load when another          *)
(* request's load completes before its test.                                 *)
C26_ReadyAndWarmupLoad ==
    [][ /\ StaysLoaded
        /\ \A s \in Services, t \in Workers :
              ( LET w == worker[s][t]
                IN  ( /\ w.pc = "done"
                      /\ w.endpoint \in {"ready", "warmup"} )
                    => /\ ~w.was_loaded => LoadsAndKeeps(s, w)
                       /\ w.was_loaded => w.load = "none" )' ]_vars

\* /warmup of the rerank-service, called with the model Unloaded, has loaded
\* it and answered 500 because the dummy inference raised.
C26_Witness ==
    \E t \in Workers :
        LET w == worker["rerank-service"][t]
        IN  /\ w.pc = "done"
            /\ w.endpoint = "warmup"
            /\ w.arrived_unloaded
            /\ ~w.was_loaded
            /\ w.load = "ok"
            /\ ~w.out.ok
            /\ w.status = 500
            /\ reranker_model # NoInst

-----------------------------------------------------------------------------
\* The class of model a request of a kind and provider is to be served by.
ClassFor(kind, method) ==
    IF kind = "rerank"
    THEN IF method = "fastembed" THEN "TextCrossEncoder" ELSE "CrossEncoder"
    ELSE IF method = "fastembed" THEN "TextEmbedding" ELSE "SentenceTransformer"

(* C27: in the multi-model server capability and provider are part of the    *)
(* cache identity: each cache holds models of its own capability and         *)
(* provider only, and a request is never served an entry that was loaded for *)
(* the same model name under the other capability or the other provider.     *)
C27_CapabilityAndProviderInIdentity ==
    /\ \A k \in DOMAIN fastembed_models :
          fastembed_models[k].cls = "TextEmbedding" /\ fastembed_models[k].name = k
    /\ \A k \in DOMAIN st_models :
          st_models[k].cls = "SentenceTransformer" /\ st_models[k].name = k
    /\ \A k \in DOMAIN reranker_models :
          reranker_models[k].cls \in {"TextCrossEncoder", "CrossEncoder"}
    /\ \A t \in Threads :
          (Served(t) /\ th[t].req.kind \in {"embed", "embed_batch", "rerank"}) =>
              /\ th[t].resp.inst.cls = ClassFor(th[t].req.kind, th[t].req.method)
              /\ th[t].resp.inst.name = th[t].req.model

\* The same model name is loaded as a fastembed embedding model, as a
\* sentence-transformers embedding model and as a sentence-transformers
\* reranker; the rerank request that has just been served was a miss and was
\* given a cross-encoder.
C27_Witness ==
    \E t \in Threads :
        /\ E5 \in DOMAIN fastembed_models
        /\ E5 \in DOMAIN st_models
        /\ (ST \o ":" \o E5) \in DOMAIN reranker_models
        /\ Served(t)
        /\ th[t].req.kind = "rerank"
        /\ th[t].req.model = E5
        /\ ~th[t].hit
        /\ th[t].resp.inst.cls = "CrossEncoder"

=============================================================================
